---- MODULE Spec2Model ----
(***************************************************************************)
(* A model of financeapp.py: the SQLite transaction store (init_db,       *)
(* add_transaction, delete_transaction, get_transactions), the Streamlit   *)
(* script run that loads the table, handles the Add / Delete forms and     *)
(* renders the dashboard (date filter, totals, expense breakdown and the   *)
(* resampled cash-flow rows).                                              *)
(*                                                                         *)
(* Amounts are counted in centavos (0.01 = 1), dates are calendar dates;   *)
(* the TEXT column holds the ISO text of a date as a sequence of           *)
(* characters.                                                             *)
(***************************************************************************)
EXTENDS Integers, Sequences, FiniteSets, TLC

VARIABLES tableExists, rows, seq, pc, df, out, last, issued

vars == <<tableExists, rows, seq, pc, df, out, last, issued>>

(***************************************************************************)
(* Bounds of the model.                                                    *)
(***************************************************************************)
\* ids the store hands out before the model stops adding
MaxId == 3
\* rows of a collection handed to the dashboard pipeline on its own
MaxRows == 3

(***************************************************************************)
(* Calendar: datetime.date, its ordinal and weekday, as Python computes    *)
(* them.                                                                   *)
(***************************************************************************)
Date(y, m, d) == [year |-> y, month |-> m, day |-> d]

IsLeap(y) == (y % 4 = 0) /\ ((y % 100 # 0) \/ (y % 400 = 0))

DaysInMonth(y, m) ==
    IF m = 2 THEN (IF IsLeap(y) THEN 29 ELSE 28)
    ELSE IF m \in {4, 6, 9, 11} THEN 30 ELSE 31

RECURSIVE DaysBeforeMonth(_, _)
DaysBeforeMonth(y, m) ==
    IF m = 1 THEN 0 ELSE DaysBeforeMonth(y, m - 1) + DaysInMonth(y, m - 1)

DaysBeforeYear(y) ==
    (y - 1) * 365 + ((y - 1) \div 4) - ((y - 1) \div 100) + ((y - 1) \div 400)

\* date.toordinal(): 0001-01-01 is day 1
ToOrdinal(dt) ==
    DaysBeforeYear(dt.year) + DaysBeforeMonth(dt.year, dt.month) + dt.day

\* date.weekday(): Monday is 0, Sunday is 6
Weekday(dt) == (ToOrdinal(dt) + 6) % 7

NextDay(dt) ==
    IF dt.day < DaysInMonth(dt.year, dt.month)
    THEN Date(dt.year, dt.month, dt.day + 1)
    ELSE IF dt.month < 12 THEN Date(dt.year, dt.month + 1, 1)
    ELSE Date(dt.year + 1, 1, 1)

RECURSIVE AddDays(_, _)
AddDays(dt, n) == IF n = 0 THEN dt ELSE AddDays(NextDay(dt), n - 1)

(***************************************************************************)
(* The TEXT a date is stored as, and its parse.  sqlite3 adapts a          *)
(* datetime.date with date.isoformat(): "YYYY-MM-DD", zero padded;         *)
(* pd.to_datetime reads the same text back.                                *)
(***************************************************************************)
DigitChar == <<"0", "1", "2", "3", "4", "5", "6", "7", "8", "9">>

Chr(n) == DigitChar[n + 1]

Ord(c) == CHOOSE n \in 0..9 : DigitChar[n + 1] = c

isoformat(dt) ==
    << Chr(dt.year \div 1000), Chr((dt.year \div 100) % 10),
       Chr((dt.year \div 10) % 10), Chr(dt.year % 10), "-",
       Chr(dt.month \div 10), Chr(dt.month % 10), "-",
       Chr(dt.day \div 10), Chr(dt.day % 10) >>

to_datetime(s) ==
    Date(Ord(s[1]) * 1000 + Ord(s[2]) * 100 + Ord(s[3]) * 10 + Ord(s[4]),
         Ord(s[6]) * 10 + Ord(s[7]),
         Ord(s[9]) * 10 + Ord(s[10]))

(***************************************************************************)
(* The sidebar's widgets (lines 59-67): what a user can submit.  The model *)
(* draws the date from two sample days in different months, the category   *)
(* from the first option of the list the chosen type gives, the amount     *)
(* from the widget's minimum and one larger value.                         *)
(***************************************************************************)
TypeOptions == <<"Expense", "Income">>

ExpenseOptions ==
    <<"Food", "Transport", "Rent", "Utilities", "Entertainment", "Shopping", "Other">>

IncomeOptions == <<"Salary", "Freelance", "Investment", "Gift", "Other">>

options(tx_type) == IF tx_type = "Expense" THEN ExpenseOptions ELSE IncomeOptions

\* number_input(min_value=0.01), in centavos
MinAmount == 1

\* the amounts the number_input lets through: none below its minimum
AmountLoose(x) == x >= 0
AmountAllowed(x) == x >= MinAmount

SampleAmounts == {-500, 0, MinAmount, 250}

FormDates == {Date(2024, 1, 31), Date(2024, 2, 1)}

FormInputs ==
    { [date |-> d, type |-> t, category |-> options(t)[1], amount |-> x, notes |-> ""] :
        d \in FormDates,
        t \in {TypeOptions[i] : i \in 1..Len(TypeOptions)},
        x \in {y \in SampleAmounts : AmountAllowed(y)} }

\* what a caller that bypasses the form can hand to add_transaction
DirectInputs ==
    FormInputs \cup
    { [date |-> Date(2024, 1, 31), type |-> "Expense", category |-> "Food",
       amount |-> x, notes |-> ""] : x \in {y \in SampleAmounts : y <= 0} } \cup
    { [date |-> Date(2024, 1, 31), type |-> "Transfer", category |-> "Other",
       amount |-> 250, notes |-> ""] }

NoArgs == [date |-> Date(1, 1, 1), type |-> "", category |-> "", amount |-> 0, notes |-> ""]

(***************************************************************************)
(* The table: CREATE TABLE transactions (id INTEGER PRIMARY KEY            *)
(* AUTOINCREMENT, date TEXT, type TEXT, category TEXT, amount REAL,        *)
(* notes TEXT).  seq is the table's entry in sqlite_sequence: the largest  *)
(* rowid ever assigned (0 before the first insert).                        *)
(***************************************************************************)
Ids(tbl) == {r.id : r \in tbl}

MaxRowId(tbl) ==
    IF tbl = {} THEN 0 ELSE CHOOSE i \in Ids(tbl) : \A j \in Ids(tbl) : j <= i

\* a plain INTEGER PRIMARY KEY: one more than the largest rowid in the table
RowIdNoAutoincrement(tbl, sq) == MaxRowId(tbl) + 1
\* AUTOINCREMENT: one more than the largest rowid the table has ever held
NextRowId(tbl, sq) ==
    (IF sq >= MaxRowId(tbl) THEN sq ELSE MaxRowId(tbl)) + 1

\* type and category bound in each other's place
RowSwapsColumns(i, a) ==
    [id |-> i, date |-> isoformat(a.date), type |-> a.category,
     category |-> a.type, amount |-> a.amount, notes |-> a.notes]
\* the row the INSERT of line 30 binds, the date adapted to its ISO text
BoundRow(i, a) ==
    [id |-> i, date |-> isoformat(a.date), type |-> a.type,
     category |-> a.category, amount |-> a.amount, notes |-> a.notes]

\* DELETE FROM transactions WHERE id = ?
DeleteAllUpTo(tbl, transaction_id) == {r \in tbl : r.id > transaction_id}
DeleteWhere(tbl, transaction_id) == {r \in tbl : r.id # transaction_id}

\* SELECT * FROM transactions
SelectAll(tbl) == tbl

\* init_db(): CREATE TABLE IF NOT EXISTS keeps an existing table as it is
init_db ==
    /\ tableExists' = TRUE
    /\ UNCHANGED <<rows, seq>>

\* add_transaction(date, type, category, amount, notes): no check of its
\* arguments, one INSERT, commit
add_transaction(a) ==
    /\ tableExists
    /\ NextRowId(rows, seq) <= MaxId
    /\ rows' = rows \cup {BoundRow(NextRowId(rows, seq), a)}
    /\ seq' = NextRowId(rows, seq)
    /\ issued' = Append(issued, NextRowId(rows, seq))
    /\ UNCHANGED tableExists

\* delete_transaction(transaction_id): one DELETE, commit; no row, no error
delete_transaction(transaction_id) ==
    /\ tableExists
    /\ rows' = DeleteWhere(rows, transaction_id)
    /\ UNCHANGED <<tableExists, seq, issued>>

\* get_transactions(): the whole table as a DataFrame
get_transactions == SelectAll(rows)

(***************************************************************************)
(* The store under its callers: the entry form, and a caller that uses     *)
(* the functions directly with any arguments and any id.                   *)
(***************************************************************************)
NoOut == [shown |-> FALSE]

StoreInit ==
    /\ tableExists = FALSE
    /\ rows = {}
    /\ seq = 0
    /\ issued = <<>>
    /\ pc = "start"
    /\ df = {}
    /\ out = NoOut
    /\ last = [op |-> "none", id |-> 0, via |-> "none", args |-> NoArgs, hit |-> FALSE]

StoreOpen ==
    /\ ~tableExists
    /\ init_db
    /\ UNCHANGED <<pc, df, out, last, issued>>

StoreFormAdd ==
    \E a \in FormInputs :
        /\ add_transaction(a)
        /\ last' = [op |-> "add", id |-> NextRowId(rows, seq), via |-> "form",
                    args |-> a, hit |-> FALSE]
        /\ UNCHANGED <<pc, df, out>>

StoreDirectAdd ==
    \E a \in DirectInputs :
        /\ add_transaction(a)
        /\ last' = [op |-> "add", id |-> NextRowId(rows, seq), via |-> "call",
                    args |-> a, hit |-> FALSE]
        /\ UNCHANGED <<pc, df, out>>

StoreDelete ==
    \E i \in 1..(MaxId + 1) :
        /\ delete_transaction(i)
        /\ last' = [op |-> "delete", id |-> i, via |-> "call", args |-> NoArgs,
                    hit |-> (i \in Ids(rows))]
        /\ UNCHANGED <<pc, df, out>>

StoreNext == StoreOpen \/ StoreFormAdd \/ StoreDirectAdd \/ StoreDelete

SpecStore == StoreInit /\ [][StoreNext]_vars

(***************************************************************************)
(* The dashboard (lines 98-246), computed from the DataFrame df the run    *)
(* loaded.                                                                 *)
(***************************************************************************)
\* df['date'] = pd.to_datetime(df['date'])
WithDates(d) == {[r EXCEPT !.date = to_datetime(r.date)] : r \in d}

min_date(d) ==
    LET ds == {r.date : r \in d}
    IN  CHOOSE x \in ds : \A y \in ds : ToOrdinal(x) <= ToOrdinal(y)

max_date(d) ==
    LET ds == {r.date : r \in d}
    IN  CHOOSE x \in ds : \A y \in ds : ToOrdinal(x) >= ToOrdinal(y)

\* the days the model lets the range picker return: a Sunday, a month's last
\* day and the next month's first day
Dates == {Date(2024, 1, 28), Date(2024, 1, 31), Date(2024, 2, 1)}

\* st.date_input(value=(min_date, max_date), min_value=min_date,
\* max_value=max_date): no date, a start alone, or a start and an end
RangeChoices(d) ==
    LET cand == {x \in Dates : /\ ToOrdinal(min_date(d)) <= ToOrdinal(x)
                               /\ ToOrdinal(x) <= ToOrdinal(max_date(d))}
    IN  {<< >>} \cup {<<s>> : s \in cand}
        \cup {<<p[1], p[2]>> : p \in {q \in cand \X cand : ToOrdinal(q[1]) <= ToOrdinal(q[2])}}

\* end date left out of the range
MaskEndExclusive(r, start_date, end_date) ==
    /\ ToOrdinal(r.date) >= ToOrdinal(start_date)
    /\ ToOrdinal(r.date) < ToOrdinal(end_date)
\* mask = (df['date'] >= start_date) & (df['date'] <= end_date)
mask(r, start_date, end_date) ==
    /\ ToOrdinal(r.date) >= ToOrdinal(start_date)
    /\ ToOrdinal(r.date) <= ToOrdinal(end_date)

\* an incomplete selection filtered as the one day it names
FilterIncompleteAsDay(d, date_range) ==
    IF Len(date_range) = 2
    THEN {r \in d : mask(r, date_range[1], date_range[2])}
    ELSE {r \in d : \A i \in 1..Len(date_range) : r.date = date_range[i]}
\* lines 122-132: filter when two dates are selected, else the whole df
filtered_df(d, date_range) ==
    IF Len(date_range) = 2
    THEN {r \in d : mask(r, date_range[1], date_range[2])}
    ELSE d

RECURSIVE SumAmount(_)
SumAmount(S) ==
    IF S = {} THEN 0
    ELSE LET r == CHOOSE x \in S : TRUE
         IN  r.amount + SumAmount(S \ {r})

income_df(fd) == {r \in fd : r.type = "Income"}

\* every row taken for an expense
ExpenseDfAllKinds(fd) == fd
expense_df(fd) == {r \in fd : r.type = "Expense"}

total_income(fd) == SumAmount(income_df(fd))

total_expense(fd) == SumAmount(expense_df(fd))

remaining_budget(fd) == total_income(fd) - total_expense(fd)

\* expense_df.groupby("category")["amount"].sum(): one entry per category
\* that occurs in expense_df (none when expense_df is empty: line 171)
\* grouped over every row of the filtered set, the income rows included
ExpenseByCatAllRows(fd) ==
    [c \in {r.category : r \in fd} |-> SumAmount({r \in fd : r.category = c})]
expense_by_cat(fd) ==
    [c \in {r.category : r \in expense_df(fd)} |->
        SumAmount({r \in expense_df(fd) : r.category = c})]

freq_map(freq_choice) ==
    IF freq_choice = "Daily" THEN "D"
    ELSE IF freq_choice = "Weekly" THEN "W" ELSE "ME"

\* the label pd.Grouper(freq) gives the bucket of a date: the date ('D'),
\* the Sunday that ends its week ('W' is W-SUN), its month's last day ('ME')
Grouper(freq, dt) ==
    IF freq = "D" THEN dt
    ELSE IF freq = "W" THEN AddDays(dt, 6 - Weekday(dt))
    ELSE Date(dt.year, dt.month, DaysInMonth(dt.year, dt.month))

\* groupby sorts its keys: bucket ascending, then type ("Expense" < "Income")
TypeRank(t) == IF t = "Expense" THEN 0 ELSE 1

GroupLE(g, h) ==
    \/ ToOrdinal(g[1]) < ToOrdinal(h[1])
    \/ ToOrdinal(g[1]) = ToOrdinal(h[1]) /\ TypeRank(g[2]) <= TypeRank(h[2])

RECURSIVE SortGroups(_)
SortGroups(G) ==
    IF G = {} THEN << >>
    ELSE LET g == CHOOSE x \in G : \A y \in G : GroupLE(x, y)
         IN  <<g>> \o SortGroups(G \ {g})

\* both kinds given a row in every bucket, the missing one with amount 0
GroupsZeroFilled(fd, freq) ==
    {<<Grouper(freq, r.date), t>> : r \in fd, t \in {"Expense", "Income"}}
\* the (bucket, type) pairs that occur in the rows
Groups(fd, freq) == {<<Grouper(freq, r.date), r.type>> : r \in fd}

\* chart_df.groupby([pd.Grouper(freq=selected_freq), 'type'])['amount']
\*     .sum().reset_index()
resampled_df(fd, freq) ==
    LET keys == SortGroups(Groups(fd, freq))
    IN  [i \in 1..Len(keys) |->
            [date |-> keys[i][1], type |-> keys[i][2],
             amount |-> SumAmount({r \in fd : /\ Grouper(freq, r.date) = keys[i][1]
                                              /\ r.type = keys[i][2]})]]

FreqChoices == {"Daily", "Weekly", "Monthly"}

\* what one pass over lines 98-246 shows for a non-empty df
Render(d, date_range, freq_choice) ==
    LET fd == filtered_df(d, date_range)
    IN  [shown |-> TRUE,
         date_range |-> date_range,
         freq_choice |-> IF fd = {} THEN "none" ELSE freq_choice,
         filtered_df |-> fd,
         total_income |-> total_income(fd),
         total_expense |-> total_expense(fd),
         remaining_budget |-> remaining_budget(fd),
         expense_by_cat |-> expense_by_cat(fd),
         resampled_df |-> IF fd = {} THEN << >>
                          ELSE resampled_df(fd, freq_map(freq_choice))]

\* lines 98-248: the dashboard of a non-empty df, else the "No transactions
\* found" notice
Dashboard ==
    /\ pc = "dashboard"
    /\ IF df = {}
       THEN out' = NoOut
       ELSE \E date_range \in RangeChoices(WithDates(df)), freq_choice \in FreqChoices :
                out' = Render(WithDates(df), date_range, freq_choice)
    /\ pc' = "done"
    /\ UNCHANGED <<tableExists, rows, seq, issued, df, last>>

(***************************************************************************)
(* The dashboard on its own: any collection of up to MaxRows transactions  *)
(* the form can have created, loaded, then one pass of the dashboard.      *)
(***************************************************************************)
PipeDates == <<Date(2024, 1, 28), Date(2024, 1, 31), Date(2024, 2, 1)>>

PipeKinds == << <<"Expense", "Food">>, <<"Expense", "Other">>, <<"Income", "Other">> >>

PipeAmounts == <<MinAmount, 250>>

\* the k-th sample transaction, k counted from 0
PipeInput(k) ==
    LET nk == Len(PipeKinds)
        na == Len(PipeAmounts)
    IN  [date |-> PipeDates[(k \div (nk * na)) + 1],
         type |-> PipeKinds[((k \div na) % nk) + 1][1],
         category |-> PipeKinds[((k \div na) % nk) + 1][2],
         amount |-> PipeAmounts[(k % na) + 1],
         notes |-> ""]

PipeInputCount == Len(PipeDates) * Len(PipeKinds) * Len(PipeAmounts)

\* tables of n rows with ids 1..n; tables that differ only in which id holds
\* which sample transaction are taken once, ids in sample order (the
\* dashboard reads no id)
PipeTables ==
    UNION { { {BoundRow(i, PipeInput(f[i])) : i \in 1..n} :
                f \in {g \in [1..n -> 0..(PipeInputCount - 1)] :
                          \A i \in 1..n : \A j \in 1..n : i < j => g[i] <= g[j]} } :
            n \in 0..MaxRows }

PipeInit ==
    /\ tableExists = TRUE
    /\ rows \in PipeTables
    /\ seq = Cardinality(rows)
    /\ issued = [i \in 1..Cardinality(rows) |-> i]
    /\ pc = "dashboard"
    /\ df = rows
    /\ out = NoOut
    /\ last = [op |-> "none", id |-> 0, via |-> "none", args |-> NoArgs, hit |-> FALSE]

PipeNext == Dashboard

SpecPipe == PipeInit /\ [][PipeNext]_vars

(***************************************************************************)
(* One session of the script.  Streamlit runs the file top to bottom on    *)
(* every interaction; pc is the place the run has reached.                 *)
(***************************************************************************)
\* the run goes on to the rest of the page with the df it loaded
ContinueRun == "delete_form"
\* st.rerun() (lines 72 and 91): the run is dropped and the script starts over
Rerun == "start"

Init ==
    /\ tableExists = FALSE
    /\ rows = {}
    /\ seq = 0
    /\ issued = <<>>
    /\ pc = "start"
    /\ df = {}
    /\ out = NoOut
    /\ last = [op |-> "none", id |-> 0, via |-> "none", args |-> NoArgs, hit |-> FALSE]

\* lines 49-53: init_db(), then df = get_transactions()
Load ==
    /\ pc = "start"
    /\ init_db
    /\ df' = get_transactions
    /\ out' = NoOut
    /\ pc' = "add_form"
    /\ UNCHANGED <<issued, last>>

\* lines 69-72: "Add Entry" pressed
AddEntry ==
    /\ pc = "add_form"
    /\ \E a \in FormInputs : add_transaction(a)
    /\ pc' = Rerun
    /\ UNCHANGED <<df, out, last>>

\* the button not pressed: on to the delete form
SkipAdd ==
    /\ pc = "add_form"
    /\ pc' = "delete_form"
    /\ UNCHANGED <<tableExists, rows, seq, issued, df, out, last>>

\* lines 78-91: an entry of df selected and "Delete Entry" pressed
DeleteEntry ==
    /\ pc = "delete_form"
    /\ df # {}
    /\ \E selected_id \in Ids(df) : delete_transaction(selected_id)
    /\ pc' = Rerun
    /\ UNCHANGED <<df, out, last>>

\* the button not pressed (or "No entries to delete."): on to the dashboard
SkipDelete ==
    /\ pc = "delete_form"
    /\ pc' = "dashboard"
    /\ UNCHANGED <<tableExists, rows, seq, issued, df, out, last>>

\* the page is up; the next interaction starts a new run
Interact ==
    /\ pc = "done"
    /\ pc' = "start"
    /\ UNCHANGED <<tableExists, rows, seq, issued, df, out, last>>

Next ==
    Load \/ AddEntry \/ SkipAdd \/ DeleteEntry \/ SkipDelete \/ Dashboard \/ Interact

Spec == Init /\ [][Next]_vars

(***************************************************************************)
(* Properties of the store.                                                *)
(***************************************************************************)
Range(s) == {s[i] : i \in 1..Len(s)}

ValidInput(a) == a.amount > 0 /\ a.type \in {"Income", "Expense"}

SameFields(r, a) ==
    /\ to_datetime(r.date) = a.date
    /\ r.type = a.type
    /\ r.category = a.category
    /\ r.amount = a.amount
    /\ r.notes = a.notes

\* C1: the persisted transactions have pairwise distinct ids, and no id was
\* handed out twice by add, the ids of deleted transactions included.
C1_IdsUniqueNeverReused ==
    /\ \A r1, r2 \in rows : r1.id = r2.id => r1 = r2
    /\ \A i, j \in 1..Len(issued) : i # j => issued[i] # issued[j]
    /\ Ids(rows) \subseteq Range(issued)

\* an add has just run on a store whose earlier transactions were all deleted
C1_Witness ==
    /\ last.op = "add"
    /\ last.id > 1
    /\ Ids(rows) = {last.id}

\* C2 as stated: an add with amount <= 0 or a kind outside {Income, Expense}
\* creates nothing.
C2_InvalidAddCreatesNothing ==
    [][\A a \in DirectInputs :
          (add_transaction(a) /\ ~ValidInput(a)) => rows' = rows]_vars

\* C2 as amended: add_transaction checks nothing and creates the transaction
\* whatever the amount and the kind; the entry form is what keeps them valid:
\* a transaction submitted by the form has amount >= 0.01 and kind Expense or
\* Income.
C2_FormValidatesAddDoesNot ==
    last.op = "add" =>
        /\ \E r \in rows : r.id = last.id /\ SameFields(r, last.args)
        /\ last.via = "form" =>
              /\ last.args.amount > 0
              /\ last.args.type \in {"Expense", "Income"}

\* a direct call with an amount that is not positive has created a transaction
C2_Witness ==
    /\ last.op = "add"
    /\ last.via = "call"
    /\ last.args.amount <= 0
    /\ \E r \in rows : r.id = last.id /\ r.amount <= 0

\* C3: add with a valid input, then listAll: the previous collection, every
\* record unchanged, plus exactly one new record with the input's fields
\* and an id no transaction has or ever had.
C3_AddThenListAll ==
    [][\A a \in FormInputs :
          add_transaction(a) =>
              \E r \in get_transactions' :
                  /\ r \notin get_transactions
                  /\ get_transactions' = get_transactions \cup {r}
                  /\ SameFields(r, a)
                  /\ r.id \notin Ids(get_transactions)
                  /\ r.id \notin Range(issued)]_vars

\* the form has just added a transaction to a store that held others
C3_Witness ==
    /\ last.op = "add"
    /\ last.via = "form"
    /\ Cardinality(rows) >= 2
    /\ Cardinality(rows) < Len(issued)

\* C4: delete(id) removes the transaction with that id and no other; with no
\* such transaction it changes nothing (so does a second delete of it).
C4_DeleteExactlyThatId ==
    [][\A i \in 1..(MaxId + 1) :
          delete_transaction(i) =>
              /\ rows' \subseteq rows
              /\ \A r \in rows : (r \in rows') <=> (r.id # i)
              /\ (i \notin Ids(rows)) => (rows' = rows /\ seq' = seq)]_vars

\* a delete of an id the store does not hold has just run, on a store that
\* holds transactions and has lost one to an earlier delete
C4_Witness ==
    /\ last.op = "delete"
    /\ ~last.hit
    /\ rows # {}
    /\ Cardinality(rows) < Len(issued)

(***************************************************************************)
(* Properties of a script run and of the dashboard.                        *)
(***************************************************************************)
DateLE(a, b) ==
    \/ a.year < b.year
    \/ a.year = b.year /\ a.month < b.month
    \/ a.year = b.year /\ a.month = b.month /\ a.day <= b.day

InRange(r, s, e) == DateLE(s, r.date) /\ DateLE(r.date, e)

Rendered == pc = "done" /\ out.shown

RECURSIVE SumValues(_, _)
SumValues(f, D) ==
    IF D = {} THEN 0
    ELSE LET c == CHOOSE x \in D : TRUE
         IN  f[c] + SumValues(f, D \ {c})

\* C5: past its load, a run holds the collection as the store has it (an add
\* or a delete restarts the run, which reloads), and what the dashboard
\* shows was computed from the store's current collection.
C5_ReloadBeforeAggregation ==
    /\ pc # "start" => df = get_transactions
    /\ Rendered =>
          out = Render(WithDates(get_transactions), out.date_range,
                       IF out.freq_choice = "none" THEN "Daily" ELSE out.freq_choice)

\* a dashboard is up after adds and a delete, some transactions left
C5_Witness ==
    /\ Rendered
    /\ Cardinality(rows) >= 2
    /\ Cardinality(rows) < Len(issued)

\* C6: with both dates selected the filter keeps exactly the transactions
\* with start <= date <= end; with start = end, exactly those of that day;
\* with no transaction date in the range, none.
C6_RangeFilterInclusive ==
    (Rendered /\ Len(out.date_range) = 2) =>
        LET T == WithDates(df)
            s == out.date_range[1]
            e == out.date_range[2]
        IN  /\ out.filtered_df = {r \in T : InRange(r, s, e)}
            /\ s = e => out.filtered_df = {r \in T : r.date = s}
            /\ (\A r \in T : ~InRange(r, s, e)) => out.filtered_df = {}

\* a one-day range that keeps some transactions and drops others
C6_Witness ==
    /\ Rendered
    /\ Len(out.date_range) = 2
    /\ out.date_range[1] = out.date_range[2]
    /\ out.filtered_df # {}
    /\ out.filtered_df # WithDates(df)

\* C7: with a date missing from the selection the dashboard is still
\* computed, from the whole collection.
C7_IncompleteRangeUnfiltered ==
    (Rendered /\ Len(out.date_range) < 2) =>
        LET T == WithDates(df)
        IN  /\ out.filtered_df = T
            /\ out.total_income = SumAmount({r \in T : r.type = "Income"})
            /\ out.total_expense = SumAmount({r \in T : r.type = "Expense"})
            /\ out.remaining_budget = out.total_income - out.total_expense

\* only a start date selected, and transactions of both kinds on other days
C7_Witness ==
    /\ Rendered
    /\ Len(out.date_range) = 1
    /\ \E r \in WithDates(df) : r.date # out.date_range[1] /\ r.type = "Income"
    /\ \E r \in WithDates(df) : r.date # out.date_range[1] /\ r.type = "Expense"

\* C8: the totals shown for a range [s, e] are those of the transactions of
\* the collection with s <= date <= e: income summed, expense summed, net
\* their difference; all zero when the range holds no transaction.
C8_TotalsOfFilteredSet ==
    (Rendered /\ Len(out.date_range) = 2) =>
        LET S == {r \in WithDates(df) : InRange(r, out.date_range[1], out.date_range[2])}
            income == SumAmount({r \in S : r.type = "Income"})
            expense == SumAmount({r \in S : r.type = "Expense"})
        IN  /\ out.total_income = income
            /\ out.total_expense = expense
            /\ out.remaining_budget = income - expense
            /\ S = {} => /\ out.total_income = 0
                         /\ out.total_expense = 0
                         /\ out.remaining_budget = 0

\* a range that keeps an income and an expense and drops a transaction
C8_Witness ==
    /\ Rendered
    /\ Len(out.date_range) = 2
    /\ \E r \in out.filtered_df : r.type = "Income"
    /\ \E r \in out.filtered_df : r.type = "Expense"
    /\ out.filtered_df # WithDates(df)

InBucket(freq_choice, k, d) ==
    IF freq_choice = "Daily" THEN k = d
    ELSE IF freq_choice = "Weekly"
         THEN /\ Weekday(k) = 6
              /\ ToOrdinal(k) - 6 <= ToOrdinal(d)
              /\ ToOrdinal(d) <= ToOrdinal(k)
         ELSE /\ k.year = d.year
              /\ k.month = d.month
              /\ NextDay(k).day = 1

\* C10: for Daily, Weekly and Monthly, every transaction falls in exactly one
\* bucket; there is exactly one row per (bucket, kind) that has a
\* transaction, its amount their sum, and no other row; rows come in bucket
\* order; transactions of two calendar months give two monthly buckets.
C10_PeriodicBuckets ==
    (Rendered /\ out.filtered_df # {}) =>
        LET fd == out.filtered_df
            R == out.resampled_df
            fq == out.freq_choice
            buckets == {R[i].date : i \in 1..Len(R)}
        IN  /\ fq \in FreqChoices
            /\ \A r \in fd :
                  Cardinality({k \in buckets : InBucket(fq, k, r.date)}) = 1
            /\ \A i, j \in 1..Len(R) :
                  i < j => /\ <<R[i].date, R[i].type>> # <<R[j].date, R[j].type>>
                           /\ DateLE(R[i].date, R[j].date)
            /\ \A i \in 1..Len(R) :
                  LET members == {r \in fd : /\ InBucket(fq, R[i].date, r.date)
                                             /\ r.type = R[i].type}
                  IN  members # {} /\ R[i].amount = SumAmount(members)
            /\ \A r \in fd :
                  \E i \in 1..Len(R) :
                      InBucket(fq, R[i].date, r.date) /\ R[i].type = r.type
            /\ (fq = "Monthly" /\ Cardinality({<<r.date.year, r.date.month>> : r \in fd}) = 2)
                  => Cardinality(buckets) = 2

\* monthly buckets of transactions of two months, one bucket summing two
\* transactions of a kind and holding none of the other kind
C10_Witness ==
    /\ Rendered
    /\ out.freq_choice = "Monthly"
    /\ Cardinality({<<r.date.year, r.date.month>> : r \in out.filtered_df}) = 2
    /\ Len(out.resampled_df) = 2
    /\ Cardinality(out.filtered_df) = 3

====
